---- MODULE Spec2Model ----
(***************************************************************************)
(* A model of compressed_dictionary.CompressedDictionary: the record       *)
(* stream codec (write_line / read_line), the value transcoder             *)
(* (__compress__ / __decompress__), the mapping itself and its structural  *)
(* operations (merge, merge_, combine, combine_on_disk, split, dump,       *)
(* load).                                                                  *)
(*                                                                         *)
(* Bytes are the integers 0..255, byte strings and texts are sequences of  *)
(* them, a Python dict is the sequence of its (key, value) entries in      *)
(* insertion order, and objects live in a heap indexed by identity.        *)
(***************************************************************************)
EXTENDS Integers, Sequences, FiniteSets, TLC

\* ------------------------------------------------------------------ bounds
\* Largest key of the mappings explored (keys range over -1..MaxKey).
MaxKey == 2
\* Largest number of entries of the mappings given to merge, merge_, combine.
MaxLen == 2
\* Largest number of entries of the mappings given to split, dump and load.
MaxSplitLen == 4
\* Largest `parts` / `parts_length` argument given to split.
MaxParts == 4
\* Largest `limit` argument given to dump and load.
MaxLimit == 1

\* ----------------------------------------------------------- program constants
LINE_LENGTH_BYTES == 4
\* Size of struct's native "i" field, which packs the key.
KEY_BYTES == 4

ALLOWED_COMPRESSIONS == {"xz", "gzip", "bz2"}
DEFAULT_COMPRESSION == "bz2"

\* ------------------------------------------------------------- sequences
Range(s) == {s[i] : i \in DOMAIN s}

\* Python's s[lo:hi] for 0 <= lo, 0 <= hi (0-based, hi exclusive, clipped).
Slice(s, lo, hi) ==
  LET h == IF hi > Len(s) THEN Len(s) ELSE hi
  IN  IF lo >= h THEN <<>> ELSE [i \in 1..(h - lo) |-> s[lo + i]]

Min2(a, b) == IF a < b THEN a ELSE b

RECURSIVE SeqMax(_)
\* max() of a non-empty sequence of integers.
SeqMax(s) ==
  IF Len(s) = 1 THEN s[1]
  ELSE LET m == SeqMax(Tail(s)) IN IF s[1] > m THEN s[1] ELSE m

\* All orderings of the elements of the sequence s (random.shuffle's outcomes).
Shuffles(s) ==
  {[i \in DOMAIN s |-> s[p[i]]] : p \in Permutations(DOMAIN s)}

\* ------------------------------------------------------------- integers <-> bytes
RECURSIVE Pow256(_)
Pow256(n) == IF n = 0 THEN 1 ELSE 256 * Pow256(n - 1)

RECURSIVE NeededBytes(_)
\* max(ceil(bit_length / 8), 1)
NeededBytes(integer) ==
  IF integer < 256 THEN 1 ELSE 1 + NeededBytes(integer \div 256)

\* int2bytes(integer, length): little-endian; length 0 stands for None.
int2bytes(integer, length) ==
  LET needed_bytes == IF length # 0 THEN length ELSE NeededBytes(integer)
  IN  [i \in 1..needed_bytes |-> (integer \div Pow256(i - 1)) % 256]

RECURSIVE bytes2int(_)
\* int.from_bytes(byteslist, byteorder="little")
bytes2int(byteslist) ==
  IF byteslist = <<>> THEN 0
  ELSE byteslist[1] + 256 * bytes2int(Tail(byteslist))

\* struct.pack("i", key): 4 bytes, two's complement, little-endian.
PackKey(key) ==
  IF key >= 0 THEN int2bytes(key, KEY_BYTES)
  ELSE LET u == int2bytes(-(key + 1), KEY_BYTES)
       IN  [i \in 1..KEY_BYTES |-> 255 - u[i]]

\* struct.unpack("i", b)
UnpackKey(b) ==
  IF b[KEY_BYTES] < 128 THEN bytes2int(b)
  ELSE -(bytes2int([i \in 1..KEY_BYTES |-> 255 - b[i]])) - 1

\* ------------------------------------------------------------- text <-> bytes
RECURSIVE str2bytes(_)
\* s.encode("utf-8") of a text given as its code points (below 2048).
str2bytes(s) ==
  IF s = <<>> THEN <<>>
  ELSE (IF s[1] < 128 THEN <<s[1]>>
        ELSE <<192 + (s[1] \div 64), 128 + (s[1] % 64)>>) \o str2bytes(Tail(s))

RECURSIVE bytes2str(_)
\* b.decode("utf-8"), for well-formed one- and two-byte sequences.
bytes2str(b) ==
  IF b = <<>> THEN <<>>
  ELSE IF b[1] < 128 \/ Len(b) = 1 THEN <<b[1]>> \o bytes2str(Tail(b))
  ELSE <<(b[1] - 192) * 64 + (b[2] - 128)>> \o bytes2str(Tail(Tail(b)))

RECURSIVE JsonDumps(_)
\* json.dumps of a natural number: its decimal digits ("0" is code point 48).
JsonDumps(value) ==
  IF value < 10 THEN <<48 + value>>
  ELSE JsonDumps(value \div 10) \o <<48 + (value % 10)>>

IsDigits(text) == text # <<>> /\ \A i \in DOMAIN text : text[i] \in 48..57

RECURSIVE DigitsValue(_)
DigitsValue(text) ==
  IF text = <<>> THEN 0
  ELSE 10 * DigitsValue(SubSeq(text, 1, Len(text) - 1)) + (text[Len(text)] - 48)

\* json.loads of a text: [ok, value]; ok is FALSE where json raises.
JsonLoads(text) ==
  IF IsDigits(text) THEN [ok |-> TRUE, value |-> DigitsValue(text)]
  ELSE [ok |-> FALSE, value |-> 0]

\* ------------------------------------------------------------- codecs
\* The leading bytes by which each compressed stream format is recognised.
Magic(compression) ==
  CASE compression = "bz2" -> <<66, 90>>
    [] compression = "gzip" -> <<31, 139>>
    [] compression = "xz" -> <<253, 55>>
    [] OTHER -> <<0, 0>>

\* ALLOWED_COMPRESSIONS[compression].compress(data)
CodecCompress(data, compression) == Magic(compression) \o data

\* ALLOWED_COMPRESSIONS[compression].decompress(data): [ok, data];
\* ok is FALSE where the decompressor rejects a stream of another format.
CodecDecompress(data, compression) ==
  IF Len(data) >= 2 /\ SubSeq(data, 1, 2) = Magic(compression)
  THEN [ok |-> TRUE, data |-> SubSeq(data, 3, Len(data))]
  ELSE [ok |-> FALSE, data |-> <<>>]

\* CompressedDictionary.__compress__(value, compression)
compress_value(value, compression) ==
  CodecCompress(str2bytes(JsonDumps(value)), compression)

\* CompressedDictionary.__decompress__(compressed_value, compression): [ok, value]
decompress_value(compressed_value, compression) ==
  LET d == CodecDecompress(compressed_value, compression)
  IN  IF d.ok THEN JsonLoads(bytes2str(d.data)) ELSE [ok |-> FALSE, value |-> 0]

\* ------------------------------------------------------------- dict
\* A dict is the sequence of its entries [key, value] in insertion order.
DictKeys(content) == [i \in DOMAIN content |-> content[i].key]

KeySet(content) == {content[i].key : i \in DOMAIN content}

HasKey(content, key) == key \in KeySet(content)

\* content[key], for a key that is present.
DictGet(content, key) ==
  content[CHOOSE i \in DOMAIN content : content[i].key = key].value

\* content[key] = value: an existing key keeps its place, a new one goes last.
DictSet(content, key, value) ==
  IF HasKey(content, key)
  THEN [i \in DOMAIN content |->
          IF content[i].key = key THEN [key |-> key, value |-> value]
          ELSE content[i]]
  ELSE Append(content, [key |-> key, value |-> value])

\* ------------------------------------------------------------- the mapping
\* CompressedDictionary(compression): the object after __init__.
NewDict(compression) == [compression |-> compression, content |-> <<>>]

\* __add_already_compresses_value__
AddRaw(d, key, value) == [d EXCEPT !.content = DictSet(@, key, value)]

\* __get_without_decompress_value__
GetRaw(d, key) == DictGet(d.content, key)

\* __getitem__: [ok, value]; ok is FALSE where the payload does not decode
\* under the mapping's own compression.
GetItem(d, key) == decompress_value(DictGet(d.content, key), d.compression)

\* `key in d`, which MutableMapping answers by calling d[key] and catching
\* KeyError only: "yes", "no", or "error" when d[key] raises something else.
Contains(d, key) ==
  IF ~HasKey(d.content, key) THEN "no"
  ELSE IF GetItem(d, key).ok THEN "yes" ELSE "error"

\* compatible
compatible(d, other) == d.compression = other.compression

\* Every payload of d decodes under d's own compression.
Decodable(d) == \A i \in DOMAIN d.content : GetItem(d, d.content[i].key).ok

\* ------------------------------------------------------------- optional arguments
\* An optional integer argument: <<>> is None, <<n>> is n.
None == <<>>
Some(n) == <<n>>

\* ------------------------------------------------------------- merge
\* One of the two copy loops of merge: the entries of src under `keys` go
\* into res, renumbered from new_key (reset_keys) or under their own key;
\* the loop over `other` (second) first asks `key in res`.
RECURSIVE MergeLoop(_, _, _, _, _, _)
MergeLoop(res, src, keys, reset_keys, new_key, second) ==
  IF keys = <<>> THEN [err |-> "None", res |-> res, new_key |-> new_key]
  ELSE LET key == Head(keys)
           found == IF second /\ ~reset_keys THEN Contains(res, key) ELSE "no"
       IN  IF reset_keys
           THEN MergeLoop(AddRaw(res, new_key, GetRaw(src, key)), src,
                          Tail(keys), reset_keys, new_key + 1, second)
           ELSE IF found = "yes"
           THEN [err |-> "DuplicateKeyError", res |-> res, new_key |-> new_key]
           ELSE IF found = "error"
           THEN [err |-> "DecodeError", res |-> res, new_key |-> new_key]
           ELSE MergeLoop(AddRaw(res, key, GetRaw(src, key)), src,
                          Tail(keys), reset_keys, new_key, second)

\* The mapping merge starts from: CompressedDictionary().
MergeResultInit(self) == NewDict(DEFAULT_COMPRESSION)

\* merge with the key counter started again at 0 for the entries of other.
merge_restart(self, other, reset_keys) ==
  IF ~compatible(self, other)
  THEN [err |-> "IncompatibleError", res |-> NewDict(DEFAULT_COMPRESSION)]
  ELSE LET first == MergeLoop(MergeResultInit(self), self, DictKeys(self.content),
                              reset_keys, 0, FALSE)
           both == MergeLoop(first.res, other, DictKeys(other.content),
                             reset_keys, 0, TRUE)
       IN  [err |-> both.err, res |-> both.res]

\* merge(self, other, reset_keys): [err, res]; res is the returned mapping
\* when err = "None" (a failed call returns nothing).
merge(self, other, reset_keys) ==
  IF ~compatible(self, other)
  THEN [err |-> "IncompatibleError", res |-> NewDict(DEFAULT_COMPRESSION)]
  ELSE LET first == MergeLoop(MergeResultInit(self), self, DictKeys(self.content),
                              reset_keys, 0, FALSE)
           both == MergeLoop(first.res, other, DictKeys(other.content),
                             reset_keys, first.new_key, TRUE)
       IN  [err |-> both.err, res |-> both.res]

\* ------------------------------------------------------------- merge_
\* set(range(max(self.keys()) + 1)) - set(self.keys()), self not empty.
FreeKeys(d) ==
  {k \in 0..SeqMax(DictKeys(d.content)) : ~HasKey(d.content, k)}

\* The key after the largest one, instead of the number of entries.
NextKey_after_max(d) == SeqMax(DictKeys(d.content)) + 2

\* The key merge_ allocates once no free key is left.
NextKey(d) == Len(d.content)

\* The loop of merge_ over list(other.keys()), on the heap h (self and other
\* may be the same object): the set of outcomes [heap, err], one for each
\* order in which free_keys.pop() may hand out the free keys.
RECURSIVE MergeInPlaceLoop(_, _, _, _, _, _)
MergeInPlaceLoop(h, self, other, keys, free_keys, reset_keys) ==
  IF keys = <<>> THEN {[heap |-> h, err |-> "None"]}
  ELSE LET key == Head(keys)
           value == GetRaw(h[other], key)
           found == IF reset_keys THEN "no" ELSE Contains(h[self], key)
       IN  IF reset_keys
           THEN IF free_keys # {}
                THEN UNION {MergeInPlaceLoop(
                              [h EXCEPT ![self] = AddRaw(@, f, value)], self,
                              other, Tail(keys), free_keys \ {f}, reset_keys)
                            : f \in free_keys}
                ELSE MergeInPlaceLoop(
                       [h EXCEPT ![self] = AddRaw(@, NextKey(@), value)], self,
                       other, Tail(keys), free_keys, reset_keys)
           ELSE IF found = "yes" THEN {[heap |-> h, err |-> "DuplicateKeyError"]}
           ELSE IF found = "error" THEN {[heap |-> h, err |-> "DecodeError"]}
           ELSE MergeInPlaceLoop(
                  [h EXCEPT ![self] = AddRaw(@, key, value)], self,
                  other, Tail(keys), free_keys, reset_keys)

\* merge_(self, other, reset_keys) on the heap h: the set of outcomes
\* [heap, err]. max() of an empty self raises before anything is copied.
merge_(h, self, other, reset_keys) ==
  IF ~compatible(h[self], h[other])
  THEN {[heap |-> h, err |-> "IncompatibleError"]}
  ELSE IF h[self].content = <<>>
  THEN {[heap |-> h, err |-> "EmptySequenceError"]}
  ELSE MergeInPlaceLoop(h, self, other, DictKeys(h[other].content),
                        FreeKeys(h[self]), reset_keys)

\* ------------------------------------------------------------- combine
\* The object combine folds into and returns.
CombineTarget(dictionaries) == dictionaries[1]

RECURSIVE CombineLoop(_, _, _, _)
CombineLoop(h, res, rest, reset_keys) ==
  IF rest = <<>> THEN {[heap |-> h, err |-> "None"]}
  ELSE UNION {IF o.err = "None"
              THEN CombineLoop(o.heap, res, Tail(rest), reset_keys)
              ELSE {o}
              : o \in merge_(h, res, Head(rest), reset_keys)}

\* combine(*dictionaries, reset_keys) on the heap h, dictionaries a sequence
\* of object identities: the set of outcomes [heap, err, res]; res is the
\* identity of the returned object (0 when the call fails).
combine(h, dictionaries, reset_keys) ==
  IF dictionaries = <<>>
  THEN {[heap |-> h, err |-> "NoDictionaryError", res |-> 0]}
  ELSE LET res == CombineTarget(dictionaries)
       IN  IF \E i \in 2..Len(dictionaries) :
                ~compatible(h[res], h[dictionaries[i]])
           THEN {[heap |-> h, err |-> "IncompatibleError", res |-> 0]}
           ELSE {[heap |-> o.heap, err |-> o.err,
                  res |-> IF o.err = "None" THEN res ELSE 0]
                 : o \in CombineLoop(h, res, Tail(dictionaries), reset_keys)}

\* ------------------------------------------------------------- split
\* math.ceil(n / parts_length), parts_length > 0.
CeilDiv(n, parts_length) == (n + parts_length - 1) \div parts_length

\* The slice of part i with the remainder m left out of the bounds.
SplitSlice_no_remainder(all_keys, i, k, m) ==
  Slice(all_keys, i * k, (i + 1) * k)

\* all_keys[i * k + min(i, m):(i + 1) * k + min(i + 1, m)], i counted from 0.
SplitSlice(all_keys, i, k, m) ==
  Slice(all_keys, i * k + Min2(i, m), (i + 1) * k + Min2(i + 1, m))

\* split_keys before drop_last: one slice per part.
SplitKeys(all_keys, parts) ==
  LET k == Len(all_keys) \div parts
      m == Len(all_keys) % parts
  IN  [j \in 1..parts |-> SplitSlice(all_keys, j - 1, k, m)]

\* The pop of the last group under drop_last.
DropLast(split_keys, drop_last) ==
  IF Len(split_keys) > 1 /\ Len(split_keys[1]) > Len(split_keys[Len(split_keys)])
     /\ drop_last
  THEN SubSeq(split_keys, 1, Len(split_keys) - 1)
  ELSE split_keys

RECURSIVE SplitFill(_, _, _, _, _)
\* for i, k in enumerate(keys): add (i if reset_keys else k) -> raw value of k
SplitFill(new, self, keys, i, reset_keys) ==
  IF keys = <<>> THEN new
  ELSE SplitFill(AddRaw(new, IF reset_keys THEN i ELSE Head(keys),
                        GetRaw(self, Head(keys))),
                 self, Tail(keys), i + 1, reset_keys)

\* The mapping one group of keys becomes.
SplitPart(self, keys, reset_keys) ==
  SplitFill(NewDict(self.compression), self, keys, 0, reset_keys)

\* list(self.split(parts, parts_length, drop_last, reset_keys, shuffle)) with
\* all_keys the key list after the optional shuffle: [err, out], out the
\* sequence of yielded mappings.
split(self, parts, parts_length, drop_last, reset_keys, all_keys) ==
  IF (parts = None) = (parts_length = None)
  THEN [err |-> "ConfigurationError", out |-> <<>>]
  ELSE IF parts = None /\ parts_length[1] = 0
  THEN [err |-> "ZeroDivisionError", out |-> <<>>]
  ELSE LET n == IF parts = None
                THEN CeilDiv(Len(self.content), parts_length[1])
                ELSE parts[1]
       IN  IF n = 0 THEN [err |-> "ZeroDivisionError", out |-> <<>>]
           ELSE LET split_keys == DropLast(SplitKeys(all_keys, n), drop_last)
                IN  [err |-> "None",
                     out |-> [j \in DOMAIN split_keys |->
                                SplitPart(self, split_keys[j], reset_keys)]]

\* ------------------------------------------------------------- record stream
\* write_line: the bytes written for one record.
write_line(data) == int2bytes(Len(data), LINE_LENGTH_BYTES) \o data

\* write_key_value_line: pack("i{len(value)}s", key, value) as one record.
write_key_value_line(key, value) == write_line(PackKey(key) \o value)

\* fd.read(n) at offset pos (counted from 0): at most n bytes, fewer at the end.
FdRead(fd, pos, n) == Slice(fd, pos, pos + n)

\* read_line at offset pos: [none, data, pos]; none is the None returned when
\* no byte is left where a length is expected.
read_line(fd, pos) ==
  LET bytes_payload_length == FdRead(fd, pos, LINE_LENGTH_BYTES)
      after == pos + Len(bytes_payload_length)
      data == FdRead(fd, after, bytes2int(bytes_payload_length))
  IN  IF bytes_payload_length = <<>>
      THEN [none |-> TRUE, data |-> <<>>, pos |-> pos]
      ELSE [none |-> FALSE, data |-> data, pos |-> after + Len(data)]

\* read_key_value_line at offset pos: [none, err, key, value, pos]; unpack
\* raises on a line shorter than the key field.
read_key_value_line(fd, pos) ==
  LET line == read_line(fd, pos)
  IN  IF line.none
      THEN [none |-> TRUE, err |-> "None", key |-> 0, value |-> <<>>,
            pos |-> line.pos]
      ELSE IF Len(line.data) < KEY_BYTES
      THEN [none |-> FALSE, err |-> "StructError", key |-> 0, value |-> <<>>,
            pos |-> line.pos]
      ELSE [none |-> FALSE, err |-> "None",
            key |-> UnpackKey(SubSeq(line.data, 1, KEY_BYTES)),
            value |-> SubSeq(line.data, KEY_BYTES + 1, Len(line.data)),
            pos |-> line.pos]

\* ------------------------------------------------------------- metadata
\* The code points of a compression identifier.
NameText(compression) ==
  CASE compression = "bz2" -> <<98, 122, 50>>
    [] compression = "gzip" -> <<103, 122, 105, 112>>
    [] compression = "xz" -> <<120, 122>>
    [] OTHER -> <<63>>

\* {"compression": "
MetaPrefix ==
  <<123, 34, 99, 111, 109, 112, 114, 101, 115, 115, 105, 111, 110, 34, 58, 32, 34>>

\* "}
MetaSuffix == <<34, 125>>

\* json.dumps({"compression": compression})
MetaDumps(compression) == MetaPrefix \o NameText(compression) \o MetaSuffix

\* json.loads of the metadata text: [ok, compression]; a well-formed object
\* naming no known algorithm loads as "unknown" (load does not validate it).
MetaLoads(text) ==
  IF \E c \in ALLOWED_COMPRESSIONS : text = MetaDumps(c)
  THEN [ok |-> TRUE,
        compression |-> CHOOSE c \in ALLOWED_COMPRESSIONS : text = MetaDumps(c)]
  ELSE IF Len(text) >= Len(MetaPrefix) + Len(MetaSuffix)
          /\ SubSeq(text, 1, Len(MetaPrefix)) = MetaPrefix
          /\ SubSeq(text, Len(text) - 1, Len(text)) = MetaSuffix
          /\ \A i \in (Len(MetaPrefix) + 1)..(Len(text) - 2) : text[i] # 34
  THEN [ok |-> TRUE, compression |-> "unknown"]
  ELSE [ok |-> FALSE, compression |-> "unknown"]

\* ------------------------------------------------------------- dump, load
RECURSIVE DumpEntries(_, _, _)
\* The key-value records of dump: entry i (from 0) is written unless a limit
\* is given and i >= limit.
DumpEntries(content, i, limit) ==
  IF content = <<>> \/ (limit # None /\ i >= limit[1]) THEN <<>>
  ELSE write_key_value_line(Head(content).key, Head(content).value)
       \o DumpEntries(Tail(content), i + 1, limit)

\* dump with the default compression written in the metadata record.
dump_default_metadata(self, limit) ==
  write_line(str2bytes(MetaDumps(DEFAULT_COMPRESSION)))
  \o DumpEntries(self.content, 0, limit)

\* dump(filepath, limit): the bytes of the file written.
dump(self, limit) ==
  write_line(str2bytes(MetaDumps(self.compression)))
  \o DumpEntries(self.content, 0, limit)

RECURSIVE LoadEntries(_, _, _, _, _)
\* The read loop of load: [err, res].
LoadEntries(res, fd, pos, read_lines, limit) ==
  LET line == read_key_value_line(fd, pos)
  IN  IF line.none THEN [err |-> "None", res |-> res]
      ELSE IF line.err # "None" THEN [err |-> line.err, res |-> res]
      ELSE IF limit # None /\ read_lines >= limit[1]
      THEN [err |-> "None", res |-> res]
      ELSE LoadEntries([res EXCEPT !.content = DictSet(@, line.key, line.value)],
                       fd, line.pos, read_lines + 1, limit)

\* load(filepath, limit) of an existing file with bytes fd: [err, res].
load(fd, limit) ==
  LET res == NewDict(DEFAULT_COMPRESSION)
      first == read_line(fd, 0)
      arguments == MetaLoads(bytes2str(first.data))
  IN  IF first.none \/ ~arguments.ok
      THEN [err |-> "MetadataError", res |-> res]
      ELSE LoadEntries([res EXCEPT !.compression = arguments.compression],
                       fd, first.pos, 0, limit)

\* ------------------------------------------------------------- combine_on_disk
\* _convert_value(value, compression_in, compression_out): [ok, value]; ok
\* is FALSE where the payload does not decode under compression_in.
convert_value(value, compression_in, compression_out) ==
  LET v == decompress_value(value, compression_in)
  IN  IF v.ok THEN [ok |-> TRUE, value |-> compress_value(v.value, compression_out)]
      ELSE [ok |-> FALSE, value |-> <<>>]

\* The keys remembered once `key` is written, with the earlier ones forgotten.
SeenKeys_forget(res_keys, key) == {key}

\* res_keys.add(key)
SeenKeys(res_keys, key) == res_keys \cup {key}

\* The value of a record read from a source as it is written to the output:
\* converted when source and output compression differ.
ConvertRecord(line, compression_in, compression_out) ==
  IF line.none \/ line.err # "None" \/ compression_in = compression_out
  THEN [ok |-> TRUE, value |-> line.value]
  ELSE convert_value(line.value, compression_in, compression_out)

\* One round of the copy loop of combine_on_disk, `line` being what
\* read_key_value_line returned and `converted` its value for the output:
\* [done, err, fo, pos, new_key, res_keys], done when the loop is left.
CopyRecord(fo, line, converted, reset_keys, new_key, res_keys) ==
  IF line.none \/ line.err # "None" \/ ~converted.ok
     \/ (~reset_keys /\ line.key \in res_keys)
  THEN [done |-> TRUE,
        err |-> IF line.none THEN "None"
                ELSE IF line.err # "None" THEN line.err
                ELSE IF ~converted.ok THEN "DecodeError"
                ELSE "DuplicateKeyError",
        fo |-> fo, pos |-> line.pos, new_key |-> new_key, res_keys |-> res_keys]
  ELSE [done |-> FALSE, err |-> "None",
        fo |-> fo \o write_key_value_line(IF reset_keys THEN new_key ELSE line.key,
                                          converted.value),
        pos |-> line.pos,
        new_key |-> IF reset_keys THEN new_key + 1 ELSE new_key,
        res_keys |-> IF reset_keys THEN res_keys ELSE SeenKeys(res_keys, line.key)]

\* One round of the copy loop on the record `line`.
CopyLine(fo, line, compression_in, compression_out, reset_keys, new_key, res_keys) ==
  CopyRecord(fo, line, ConvertRecord(line, compression_in, compression_out),
             reset_keys, new_key, res_keys)

RECURSIVE CombineRecords(_, _, _, _, _, _, _, _)
\* The copy loop after the round `step`.
CombineRecordsFrom(step, fd, compression_in, compression_out, reset_keys) ==
  IF step.done THEN step
  ELSE CombineRecords(step.fo, fd, step.pos, compression_in, compression_out,
                      reset_keys, step.new_key, step.res_keys)

\* The copy loop of combine_on_disk over the key-value records of one source
\* file fd from offset pos, appending to the bytes fo written so far.
CombineRecords(fo, fd, pos, compression_in, compression_out, reset_keys, new_key, res_keys) ==
  CombineRecordsFrom(CopyLine(fo, read_key_value_line(fd, pos), compression_in,
                              compression_out, reset_keys, new_key, res_keys),
                     fd, compression_in, compression_out, reset_keys)

RECURSIVE CombineFiles(_, _, _, _, _, _, _)
\* The loop over the source files after the records of one were copied.
CombineFilesFrom(d, copied, dictionaries_files, compression_out, reset_keys) ==
  IF copied.err # "None" THEN [err |-> copied.err, fo |-> copied.fo]
  ELSE CombineFiles(d, copied.fo, dictionaries_files, compression_out,
                    reset_keys, copied.new_key, copied.res_keys)

\* One source file with metadata record `first`, parsed as `arguments_2`.
CombineFile(d, fo, fi, first, arguments_2, rest, compression_out, reset_keys, new_key, res_keys) ==
  IF ~fi.exists THEN [err |-> "FileNotFoundError", fo |-> fo]
  ELSE IF first.none \/ ~arguments_2.ok THEN [err |-> "MetadataError", fo |-> fo]
  ELSE CombineFilesFrom(d, CombineRecords(fo, fi.data, first.pos,
                                          arguments_2.compression,
                                          compression_out, reset_keys, new_key,
                                          res_keys),
                        rest, compression_out, reset_keys)

\* The loop of combine_on_disk over the source files: [err, fo].
CombineFiles(d, fo, dictionaries_files, compression_out, reset_keys, new_key, res_keys) ==
  IF dictionaries_files = <<>> THEN [err |-> "None", fo |-> fo]
  ELSE CombineFile(d, fo, d[Head(dictionaries_files)],
                   read_line(d[Head(dictionaries_files)].data, 0),
                   MetaLoads(bytes2str(
                     read_line(d[Head(dictionaries_files)].data, 0).data)),
                   Tail(dictionaries_files), compression_out, reset_keys,
                   new_key, res_keys)

\* combine_on_disk(destination, *dictionaries_files, compression, reset_keys)
\* on the disk d, destination not among the sources: [err, disk]. A call that
\* fails after opening the destination leaves there what it had written.
\* compression "None" stands for the argument left out.
combine_on_disk(d, destination, dictionaries_files, compression, reset_keys) ==
  IF dictionaries_files = <<>> THEN [err |-> "NoDictionaryError", disk |-> d]
  ELSE LET fi == d[dictionaries_files[1]]
           first == read_line(fi.data, 0)
           arguments == MetaLoads(bytes2str(first.data))
           compression_out == IF compression # "None" THEN compression
                              ELSE arguments.compression
           written == CombineFiles(d, write_line(str2bytes(MetaDumps(compression_out))),
                                   dictionaries_files, compression_out,
                                   reset_keys, 0, {})
       IN  IF ~fi.exists THEN [err |-> "FileNotFoundError", disk |-> d]
           ELSE IF first.none \/ ~arguments.ok
           THEN [err |-> "MetadataError", disk |-> d]
           ELSE [err |-> written.err,
                 disk |-> [d EXCEPT ![destination] =
                             [exists |-> TRUE, data |-> written.fo]]]

\* ------------------------------------------------------------- state
VARIABLES
  heap,   \* object identity -> mapping (NoObj where no object lives)
  disk,   \* the files: filepath -> [exists, data]
  call    \* the call made last: its arguments, the heap before it, its outcome

vars == <<heap, disk, call>>

Objs == {1, 2}
NoObj == [compression |-> "none", content |-> <<>>]
Alive(h) == {o \in DOMAIN h : h[o] # NoObj}

Keys == (-1)..MaxKey
Flags == {TRUE, FALSE}

\* The value a caller stores under `key` of object `obj`: every entry holds a
\* value of its own, so a payload identifies the entry it was copied from.
ValueOf(obj, key) == 10 * obj + key + 1

\* Key lists without repetition, of at most n keys.
KeyLists(n) ==
  UNION {{ks \in [1..l -> Keys] : \A i, j \in 1..l : i # j => ks[i] # ks[j]}
         : l \in 0..n}

RECURSIVE Ascending(_)
\* The elements of a set of integers, smallest first.
Ascending(S) ==
  IF S = {} THEN <<>>
  ELSE LET m == CHOOSE x \in S : \A y \in S : x <= y
       IN  <<m>> \o Ascending(S \ {m})

\* Key lists in ascending order, of at most n keys.
AscendingKeyLists(n) == {Ascending(S) : S \in {T \in SUBSET Keys : Cardinality(T) <= n}}

\* The mapping object `obj` is after CompressedDictionary(compression) and
\* d[k] = ValueOf(obj, k) for k in ks, in that order (__init__, __setitem__).
Populated(obj, compression, ks) ==
  [compression |-> compression,
   content |-> [i \in DOMAIN ks |->
                  [key |-> ks[i],
                   value |-> compress_value(ValueOf(obj, ks[i]), compression)]]]

Populations(obj, n) ==
  {Populated(obj, c, ks) : c \in ALLOWED_COMPRESSIONS, ks \in KeyLists(n)}

NoCall ==
  [op |-> "init", self |-> 0, other |-> 0, args |-> <<>>, reset_keys |-> FALSE,
   parts |-> None, parts_length |-> None, drop_last |-> FALSE,
   shuffle |-> FALSE, all_keys |-> <<>>, limit |-> None, load_limit |-> None,
   filepath |-> "", load_filepath |-> "", files |-> <<>>, destination |-> "",
   compression |-> "None", write_err |-> "None", at |-> 0, pos |-> 0,
   none |-> FALSE,
   err |-> "None", out |-> <<>>, res |-> 0, pre |-> <<>>]

Idle == call.op = "init"

\* The file paths in use, and the disk before anything is written.
Paths == {"a", "b", "res"}
NoFile == [exists |-> FALSE, data |-> <<>>]
NoDisk == [p \in Paths |-> NoFile]

\* ------------------------------------------------------------- merge, merge_, combine
InitMerge ==
  /\ heap \in {[o \in Objs |-> IF o = 1 THEN a ELSE b]
               : a \in Populations(1, MaxLen), b \in Populations(2, MaxLen)}
  /\ disk = NoDisk
  /\ call = NoCall

\* x = self.merge(other, reset_keys)
Merge(self, other, reset_keys) ==
  /\ Idle
  /\ LET r == merge(heap[self], heap[other], reset_keys)
     IN  call' = [call EXCEPT !.op = "merge", !.self = self, !.other = other,
                              !.reset_keys = reset_keys, !.pre = heap,
                              !.err = r.err,
                              !.out = IF r.err = "None" THEN <<r.res>> ELSE <<>>]
  /\ UNCHANGED <<heap, disk>>

\* self.merge_(other, reset_keys)
MergeInPlace(self, other, reset_keys) ==
  /\ Idle
  /\ \E o \in merge_(heap, self, other, reset_keys) :
       /\ heap' = o.heap
       /\ call' = [call EXCEPT !.op = "merge_", !.self = self, !.other = other,
                               !.reset_keys = reset_keys, !.pre = heap,
                               !.err = o.err]
  /\ UNCHANGED disk

\* x = CompressedDictionary.combine(*dictionaries, reset_keys=reset_keys)
Combine(dictionaries, reset_keys) ==
  /\ Idle
  /\ \E o \in combine(heap, dictionaries, reset_keys) :
       /\ heap' = o.heap
       /\ call' = [call EXCEPT !.op = "combine", !.args = dictionaries,
                               !.reset_keys = reset_keys, !.pre = heap,
                               !.err = o.err, !.res = o.res]
  /\ UNCHANGED disk

\* Argument lists of combine: up to two of the objects, in any order.
ArgLists == UNION {[1..l -> Objs] : l \in 0..2}

NextMerge ==
  \/ \E self, other \in Objs, reset_keys \in Flags : Merge(self, other, reset_keys)
  \/ \E self, other \in Objs, reset_keys \in Flags :
       MergeInPlace(self, other, reset_keys)
  \/ \E dictionaries \in ArgLists, reset_keys \in Flags :
       Combine(dictionaries, reset_keys)

SpecMerge == InitMerge /\ [][NextMerge]_vars

\* ------------------------------------------------------------- properties of merge
\* The mappings a call was given, as they were before it.
PreSelf == call.pre[call.self]
PreOther == call.pre[call.other]
SharedKeys(a, b) == KeySet(a.content) \cap KeySet(b.content)

\* C2: every mapping that exists, the returned ones included, stores under
\* each key a payload that decodes under the mapping's own compression.
C2_PayloadsDecodable ==
  /\ \A o \in Alive(heap) : Decodable(heap[o])
  /\ \A i \in DOMAIN call.out : Decodable(call.out[i])

C4_MergeKeepKeys ==
  (call.op = "merge" /\ ~call.reset_keys /\ compatible(PreSelf, PreOther)) =>
    /\ (call.err = "DuplicateKeyError") <=> (SharedKeys(PreSelf, PreOther) # {})
    /\ SharedKeys(PreSelf, PreOther) = {} =>
         /\ call.err = "None"
         /\ Range(call.out[1].content)
              = Range(PreSelf.content) \cup Range(PreOther.content)
         /\ Len(call.out[1].content)
              = Len(PreSelf.content) + Len(PreOther.content)
    /\ heap = call.pre

\* C5: merge_ without reset_keys onto a mapping that shares a key with other
\* fails with the duplicate-key error and leaves self as it was.
C5_MergeInPlaceNoPartial ==
  (call.op = "merge_" /\ ~call.reset_keys /\ compatible(PreSelf, PreOther)
   /\ SharedKeys(PreSelf, PreOther) # {}) =>
    /\ call.err = "DuplicateKeyError"
    /\ heap[call.self] = PreSelf

\* The holes of a non-empty mapping: the unassigned non-negative integers
\* below its largest key.
Holes(d) ==
  IF d.content = <<>> THEN {}
  ELSE {k \in 0..SeqMax(DictKeys(d.content)) : k \notin KeySet(d.content)}

\* The key, new in self after the call, that holds the payload of the j-th
\* entry other had before the call.
NewKeyOf(j) ==
  CHOOSE k \in KeySet(heap[call.self].content) \ KeySet(PreSelf.content) :
    DictGet(heap[call.self].content, k) = PreOther.content[j].value

\* merge_ with reset_keys stored the entries of other hole-first: entry j
\* under a hole of self while j does not exceed the number of holes, above
\* self's largest key afterwards.
HolesFirst ==
  /\ Len(heap[call.self].content)
       = Len(PreSelf.content) + Len(PreOther.content)
  /\ \A j \in DOMAIN PreOther.content :
       /\ \E k \in KeySet(heap[call.self].content) \ KeySet(PreSelf.content) :
            DictGet(heap[call.self].content, k) = PreOther.content[j].value
       /\ IF j <= Cardinality(Holes(PreSelf))
          THEN NewKeyOf(j) \in Holes(PreSelf)
          ELSE PreSelf.content # <<>> =>
                 NewKeyOf(j) > SeqMax(DictKeys(PreSelf.content))
  /\ (/\ \A k \in KeySet(PreSelf.content) : k >= 0
      /\ Len(PreOther.content) >= Cardinality(Holes(PreSelf))) =>
       KeySet(heap[call.self].content)
         = 0..(Len(PreSelf.content) + Len(PreOther.content) - 1)

\* C6: merge_ with reset_keys on compatible mappings stores the entries of
\* other under the holes of self first and above self's largest key only
\* when no hole is left; with non-negative keys in self and at least as many
\* entries in other as holes, self's keys end up 0..len(self)+len(other)-1.
C6_MergeInPlaceHolesFirst ==
  (call.op = "merge_" /\ call.reset_keys /\ compatible(PreSelf, PreOther)) =>
    HolesFirst

\* C6 on a self that holds at least one entry, which is where merge_ gets
\* past max(self.keys()).
C6_HolesFirstNonEmptySelf ==
  (call.op = "merge_" /\ call.reset_keys /\ compatible(PreSelf, PreOther)
   /\ PreSelf.content # <<>>) =>
    call.err = "None" /\ HolesFirst

\* C12: merge_ with reset_keys on compatible mappings (an empty self, an
\* empty other and other being self included) completes without error;
\* afterwards self holds every entry it held, under the same key with the
\* same payload, and len(other) new entries, one for each entry of other,
\* each under a key that was unassigned before.
C12_MergeInPlaceTotal ==
  (call.op = "merge_" /\ call.reset_keys /\ compatible(PreSelf, PreOther)) =>
    LET post == heap[call.self].content
        added == KeySet(post) \ KeySet(PreSelf.content)
    IN  /\ call.err = "None"
        /\ \A i \in DOMAIN PreSelf.content :
             /\ HasKey(post, PreSelf.content[i].key)
             /\ DictGet(post, PreSelf.content[i].key) = PreSelf.content[i].value
        /\ Len(post) = Len(PreSelf.content) + Len(PreOther.content)
        /\ Cardinality(added) = Len(PreOther.content)
        /\ \A j \in DOMAIN PreOther.content :
             \E k \in added : DictGet(post, k) = PreOther.content[j].value

\* C7: combine, whether it returns or fails, leaves every mapping it is
\* given as it was, the first one included.
C7_CombineKeepsInputs ==
  (call.op = "combine" /\ call.args # <<>>
   /\ \A i, j \in DOMAIN call.args :
        compatible(call.pre[call.args[i]], call.pre[call.args[j]])) =>
    \A i \in DOMAIN call.args : heap[call.args[i]] = call.pre[call.args[i]]

\* ------------------------------------------------------------- split
\* The mappings split is given: populated in ascending key order (shuffle
\* supplies the other orders of the key list), and the mappings merge
\* returns for them.
AscendingPopulations(obj, n) ==
  {Populated(obj, c, ks) : c \in ALLOWED_COMPRESSIONS, ks \in AscendingKeyLists(n)}

InitSplit ==
  /\ heap \in {[o \in Objs |-> IF o = 1 THEN d ELSE NoObj]
               : d \in AscendingPopulations(1, MaxSplitLen)
                       \cup {merge(x, NewDict(x.compression), FALSE).res
                             : x \in AscendingPopulations(1, MaxSplitLen)}}
  /\ disk = NoDisk
  /\ call = NoCall

\* The (parts, parts_length) pairs given to split: neither, either one, both.
SplitArgs ==
  {<<None, None>>}
  \cup {<<Some(n), None>> : n \in 0..MaxParts}
  \cup {<<None, Some(n)>> : n \in 0..MaxParts}
  \cup {<<Some(n), Some(n)>> : n \in 0..MaxParts}

\* x = list(self.split(parts, parts_length, drop_last, reset_keys, shuffle))
Split(self, parts, parts_length, drop_last, reset_keys, shuffle) ==
  /\ Idle
  /\ \E all_keys \in (IF shuffle THEN Shuffles(DictKeys(heap[self].content))
                      ELSE {DictKeys(heap[self].content)}) :
       LET r == split(heap[self], parts, parts_length, drop_last, reset_keys,
                      all_keys)
       IN  call' = [call EXCEPT !.op = "split", !.self = self, !.parts = parts,
                                !.parts_length = parts_length,
                                !.drop_last = drop_last,
                                !.reset_keys = reset_keys, !.shuffle = shuffle,
                                !.all_keys = all_keys, !.pre = heap,
                                !.err = r.err, !.out = r.out]
  /\ UNCHANGED <<heap, disk>>

\* x = CompressedDictionary.combine(*list(self.split(parts=parts,
\*       reset_keys=False, drop_last=False, shuffle=False)), reset_keys=...)
\* The parts are objects of their own: combine runs on the heap they form.
SplitCombine(self, parts, reset_keys) ==
  /\ Idle
  /\ LET r == split(heap[self], Some(parts), None, FALSE, FALSE,
                    DictKeys(heap[self].content))
     IN  \E o \in combine(r.out, [i \in DOMAIN r.out |-> i], reset_keys) :
           call' = [call EXCEPT !.op = "split_combine", !.self = self,
                                !.parts = Some(parts),
                                !.reset_keys = reset_keys, !.pre = heap,
                                !.err = o.err,
                                !.out = IF o.err = "None"
                                        THEN <<o.heap[o.res]>> ELSE <<>>]
  /\ UNCHANGED <<heap, disk>>

NextSplit ==
  \/ \E self \in Alive(heap), a \in SplitArgs, drop_last, reset_keys, shuffle \in Flags :
       Split(self, a[1], a[2], drop_last, reset_keys, shuffle)
  \/ \E self \in Alive(heap), parts \in 1..MaxParts, reset_keys \in Flags :
       SplitCombine(self, parts, reset_keys)

SpecSplit == InitSplit /\ [][NextSplit]_vars

\* ------------------------------------------------------------- properties of split
\* Two mappings with the same compression, the same keys and the same raw
\* payload under each key.
SameMapping(x, y) ==
  /\ x.compression = y.compression
  /\ KeySet(x.content) = KeySet(y.content)
  /\ Len(x.content) = Len(y.content)
  /\ \A k \in KeySet(x.content) : DictGet(x.content, k) = DictGet(y.content, k)

PartSize(n, p, i) == (n \div p) + (IF i < n % p THEN 1 ELSE 0)

RECURSIVE PartOffset(_, _, _)
\* The number of entries in the parts before part i (from 0).
PartOffset(n, p, i) ==
  IF i = 0 THEN 0 ELSE PartOffset(n, p, i - 1) + PartSize(n, p, i - 1)

\* C9: split(parts=p), p >= 1, without drop_last yields p mappings with the
\* source's compression; part i takes the next floor(n/p) (+1 if i < n mod p)
\* keys of the possibly shuffled key list, each with the source's raw
\* payload, under the original key or, with reset_keys, under 0..size-1.
C9_SplitParts ==
  (call.op = "split" /\ call.parts # None /\ call.parts_length = None
   /\ call.parts[1] >= 1 /\ ~call.drop_last) =>
    LET n == Len(PreSelf.content)
        p == call.parts[1]
    IN  /\ call.err = "None"
        /\ Len(call.out) = p
        /\ Range(call.all_keys) = KeySet(PreSelf.content)
        /\ Len(call.all_keys) = n
        /\ ~call.shuffle => call.all_keys = DictKeys(PreSelf.content)
        /\ \A i \in 1..p :
             /\ call.out[i].compression = PreSelf.compression
             /\ Len(call.out[i].content) = PartSize(n, p, i - 1)
             /\ \A j \in DOMAIN call.out[i].content :
                  LET src == call.all_keys[PartOffset(n, p, i - 1) + j]
                  IN  /\ call.out[i].content[j].value = GetRaw(PreSelf, src)
                      /\ call.out[i].content[j].key
                           = IF call.reset_keys THEN j - 1 ELSE src

\* C9 witness: four entries were shuffled out of their order and split in
\* three parts under their original keys.
C9_Witness ==
  /\ call.op = "split" /\ call.err = "None"
  /\ call.parts = Some(3) /\ call.parts_length = None
  /\ ~call.drop_last /\ ~call.reset_keys /\ call.shuffle
  /\ Len(PreSelf.content) = 4
  /\ call.all_keys # DictKeys(PreSelf.content)
  /\ Len(call.out) = 3 /\ Len(call.out[1].content) = 2

\* C10: split(parts_length=L) of a non-empty mapping yields parts of exactly
\* L entries, except that without drop_last the last part may be smaller;
\* with drop_last every yielded part has exactly L entries.
C10_SplitPartsLength ==
  (call.op = "split" /\ call.parts = None /\ call.parts_length # None
   /\ call.parts_length[1] >= 1 /\ PreSelf.content # <<>>) =>
    /\ call.err = "None"
    /\ \A i \in DOMAIN call.out :
         IF i < Len(call.out) \/ call.drop_last
         THEN Len(call.out[i].content) = call.parts_length[1]
         ELSE Len(call.out[i].content) <= call.parts_length[1]

\* ------------------------------------------------------------- dump, load
\* The mappings dump is given: populated ones, and the mappings merge
\* returns for them.
InitDump ==
  /\ heap \in {[o \in Objs |-> IF o = 1 THEN d ELSE NoObj]
               : d \in Populations(1, MaxSplitLen)
                       \cup {merge(x, NewDict(x.compression), FALSE).res
                             : x \in Populations(1, MaxSplitLen)}}
  /\ disk = NoDisk
  /\ call = NoCall

Limits == {None} \cup {Some(n) : n \in 0..MaxLimit}

\* self.dump(filepath, limit)
Dump(self, filepath, limit) ==
  /\ Idle
  /\ disk' = [disk EXCEPT ![filepath] =
                [exists |-> TRUE, data |-> dump(heap[self], limit)]]
  /\ call' = [call EXCEPT !.op = "dump", !.self = self, !.limit = limit,
                          !.filepath = filepath, !.pre = heap]
  /\ UNCHANGED heap

\* x = CompressedDictionary.load(filepath, limit), first thing or after the
\* call that wrote the files (whose arguments the call record keeps).
Load(filepath, limit) ==
  /\ call.op \in {"init", "dump", "combine_on_disk"}
  /\ LET r == IF disk[filepath].exists THEN load(disk[filepath].data, limit)
              ELSE [err |-> "NotAFileError", res |-> NoObj]
     IN  call' = [call EXCEPT !.op = "load", !.load_limit = limit,
                              !.load_filepath = filepath,
                              !.pre = heap, !.err = r.err,
                              !.out = IF r.err = "None" THEN <<r.res>> ELSE <<>>]
  /\ UNCHANGED <<heap, disk>>

NextDump ==
  \/ \E self \in Alive(heap), filepath \in Paths, limit \in Limits :
       Dump(self, filepath, limit)
  \/ \E filepath \in Paths, limit \in Limits : Load(filepath, limit)

SpecDump == InitDump /\ [][NextDump]_vars

DumpedObj(filepath) == IF filepath = "a" THEN 1 ELSE 2

\* Two mappings populated in ascending key order are dumped, d1.dump("a")
\* and d2.dump("b"): a gzip or bz2 one, and one of the same or of the default
\* compression (xz is what combine_on_disk is asked to convert to).
InitDisk ==
  /\ \E x \in AscendingPopulations(1, MaxLen), y \in AscendingPopulations(2, MaxLen) :
       /\ x.compression \in {"gzip", DEFAULT_COMPRESSION}
       /\ y.compression \in {x.compression, DEFAULT_COMPRESSION}
       /\ heap = [o \in Objs |-> IF o = 1 THEN x ELSE y]
       /\ disk = [p \in Paths |->
                   IF p = "res" THEN NoFile
                   ELSE [exists |-> TRUE,
                         data |-> dump(IF DumpedObj(p) = 1 THEN x ELSE y, None)]]
  /\ call = NoCall

\* CompressedDictionary.combine_on_disk(destination, *dictionaries_files,
\*                                      compression=..., reset_keys=...)
CombineOnDisk(destination, dictionaries_files, compression, reset_keys) ==
  /\ Idle
  /\ destination \notin Range(dictionaries_files)
  /\ LET r == combine_on_disk(disk, destination, dictionaries_files, compression,
                              reset_keys)
     IN  /\ disk' = r.disk
         /\ call' = [call EXCEPT !.op = "combine_on_disk",
                                 !.destination = destination,
                                 !.files = dictionaries_files,
                                 !.compression = compression,
                                 !.reset_keys = reset_keys, !.pre = heap,
                                 !.write_err = r.err, !.err = r.err]
  /\ UNCHANGED heap

\* Source file lists of combine_on_disk: up to two of the dumps, in any order.
FileLists == UNION {[1..l -> {"a", "b"}] : l \in 0..2}

\* The `compression` arguments given to combine_on_disk: left out, or xz.
CompressionArgs == {"None", "xz"}

NextDisk ==
  \/ \E dictionaries_files \in FileLists,
        compression \in CompressionArgs, reset_keys \in Flags :
       CombineOnDisk("res", dictionaries_files, compression, reset_keys)
  \/ /\ call.op = "combine_on_disk"
     /\ Load(call.destination, None)

SpecDisk == InitDisk /\ [][NextDisk]_vars

\* ------------------------------------------------------------- properties of combine_on_disk
\* The mappings whose dumps the call was given, in the order given.
SourceObjs == [i \in DOMAIN call.files |-> DumpedObj(call.files[i])]

\* Two mappings with the same keys and the same value under each key.
SameContent(x, y) ==
  /\ KeySet(x.content) = KeySet(y.content)
  /\ Len(x.content) = Len(y.content)
  /\ \A k \in KeySet(x.content) : GetItem(x, k) = GetItem(y, k)

\* C11: for a non-empty sequence of compatible mappings and either
\* reset_keys, when combine_on_disk over their dumps and combine over the
\* mappings both succeed, load of the file combine_on_disk wrote has the same
\* keys, and the same value under each key, as the mapping combine returns.
C11_StreamingCombineEquivalence ==
  (call.op = "load" /\ call.files # <<>> /\ call.load_filepath = call.destination
   /\ \A i, j \in DOMAIN SourceObjs :
        compatible(heap[SourceObjs[i]], heap[SourceObjs[j]])
   /\ call.write_err = "None" /\ call.err = "None") =>
    \A o \in combine(heap, SourceObjs, call.reset_keys) :
      o.err = "None" => SameContent(call.out[1], o.heap[o.res])

RECURSIVE SourceRecords(_)
\* The entries of the given mappings one after the other: [key, value, compression].
SourceRecords(objs) ==
  IF objs = <<>> THEN <<>>
  ELSE [i \in DOMAIN heap[Head(objs)].content |->
          [key |-> heap[Head(objs)].content[i].key,
           value |-> heap[Head(objs)].content[i].value,
           compression |-> heap[Head(objs)].compression]]
       \o SourceRecords(Tail(objs))

\* Some key occurs twice among the source records.
RepeatedKey(records) ==
  \E i, j \in DOMAIN records : i < j /\ records[i].key = records[j].key

\* The destination holds one record per source record, in the same order:
\* the n-th one (from 0) under key n (reset_keys) or under its original key,
\* with the value of the n-th source record.
WrittenInOrder(records, reset_keys) ==
  LET written == load(disk[call.destination].data, None)
  IN  /\ written.err = "None"
      /\ Len(written.res.content) = Len(records)
      /\ \A n \in DOMAIN records :
           /\ written.res.content[n].key
                = IF reset_keys THEN n - 1 ELSE records[n].key
           /\ decompress_value(written.res.content[n].value,
                               written.res.compression)
                = decompress_value(records[n].value, records[n].compression)
           /\ decompress_value(records[n].value, records[n].compression).ok

\* C14: combine_on_disk without reset_keys fails with the duplicate-key error
\* exactly when a record's key was already written in the same run, and
\* otherwise writes every source record under its original key, file after
\* file and record after record; with reset_keys it never fails on
\* duplicates and the n-th record written (from 0) gets key n.
C14_CombineOnDiskKeys ==
  (call.op = "combine_on_disk" /\ call.files # <<>>) =>
    LET records == SourceRecords(SourceObjs)
    IN  IF call.reset_keys
        THEN call.err = "None" /\ WrittenInOrder(records, TRUE)
        ELSE /\ (call.err = "DuplicateKeyError") <=> RepeatedKey(records)
             /\ ~RepeatedKey(records) =>
                  call.err = "None" /\ WrittenInOrder(records, FALSE)

\* C14 witness: the dumps of two two-entry mappings of different compression
\* and without a common key were combined under their own keys, the second
\* dump first.
C14_Witness ==
  /\ call.op = "combine_on_disk" /\ ~call.reset_keys /\ call.err = "None"
  /\ call.files = <<"b", "a">>
  /\ heap[1].compression # heap[2].compression
  /\ Len(heap[1].content) = 2 /\ Len(heap[2].content) = 2
  /\ ~RepeatedKey(SourceRecords(SourceObjs))

\* ------------------------------------------------------------- read_line, read_key_value_line
\* The first n bytes of a file.
Truncate(data, n) == SubSeq(data, 1, n)

\* The file "a" holds the dump of a mapping, or what is left of it after the
\* file was cut at some length.
InitRead ==
  /\ \E x \in AscendingPopulations(1, MaxLen) :
       /\ heap = [o \in Objs |-> IF o = 1 THEN x ELSE NoObj]
       /\ \E n \in 0..Len(dump(x, None)) :
            disk = [NoDisk EXCEPT !["a"] =
                      [exists |-> TRUE, data |-> Truncate(dump(x, None), n)]]
  /\ call = NoCall

\* The calls made on one file object fi = open(filepath, "rb"), which call.pos
\* is the position of.
Reading == call.op \in {"init", "read_line", "read_key_value_line"}

\* x = CompressedDictionary.read_line(fi)
ReadLine(filepath) ==
  /\ Reading
  /\ call.op = "init" \/ call.filepath = filepath
  /\ disk[filepath].exists
  /\ LET line == read_line(disk[filepath].data, call.pos)
     IN  call' = [call EXCEPT !.op = "read_line", !.filepath = filepath,
                              !.at = call.pos, !.pos = line.pos,
                              !.none = line.none, !.err = "None",
                              !.out = IF line.none THEN <<>> ELSE <<line.data>>,
                              !.pre = heap]
  /\ UNCHANGED <<heap, disk>>

\* x = CompressedDictionary.read_key_value_line(fi)
ReadKeyValueLine(filepath) ==
  /\ Reading
  /\ call.op = "init" \/ call.filepath = filepath
  /\ disk[filepath].exists
  /\ LET line == read_key_value_line(disk[filepath].data, call.pos)
     IN  call' = [call EXCEPT !.op = "read_key_value_line",
                              !.filepath = filepath,
                              !.at = call.pos, !.pos = line.pos,
                              !.none = line.none, !.err = line.err,
                              !.out = IF line.none \/ line.err # "None" THEN <<>>
                                      ELSE <<[key |-> line.key,
                                              value |-> line.value]>>,
                              !.pre = heap]
  /\ UNCHANGED <<heap, disk>>

NextRead ==
  \/ ReadLine("a")
  \/ ReadKeyValueLine("a")
  \/ Load("a", None)

SpecRead == InitRead /\ [][NextRead]_vars

\* ------------------------------------------------------------- properties of the record stream
\* The length the length field at offset pos declares, all its bytes present.
DeclaredLength(fd, pos) ==
  fd[pos + 1] + 256 * fd[pos + 2] + 65536 * fd[pos + 3] + 16777216 * fd[pos + 4]

\* The record expected at offset pos is cut: its length field has some but
\* not all of its bytes, or its payload has fewer bytes than declared.
CutRecord(fd, pos) ==
  LET available == Len(fd) - pos
  IN  \/ 0 < available /\ available < LINE_LENGTH_BYTES
      \/ /\ available >= LINE_LENGTH_BYTES
         /\ available - LINE_LENGTH_BYTES < DeclaredLength(fd, pos)

RECURSIVE CutStream(_, _)
\* Some record of the stream from offset pos on is cut.
CutStream(fd, pos) ==
  IF pos >= Len(fd) THEN FALSE
  ELSE IF CutRecord(fd, pos) THEN TRUE
  ELSE CutStream(fd, pos + LINE_LENGTH_BYTES + DeclaredLength(fd, pos))

\* C13: read_line and read_key_value_line return None only when no byte is
\* left where a length field is expected, and fail on a cut record instead
\* of returning a shortened payload or value; load fails on a file with a
\* cut record.
C13_TruncatedRejected ==
  /\ call.op \in {"read_line", "read_key_value_line"} =>
       /\ call.none <=> (Len(disk[call.filepath].data) = call.at)
       /\ CutRecord(disk[call.filepath].data, call.at) => call.err # "None"
  /\ call.op = "load" =>
       (CutStream(disk[call.load_filepath].data, 0) => call.err # "None")

====
